---- MODULE Spec2Model ----
(***************************************************************************)
(* Programming Joke Bot (src/app.py): a Streamlit script that is rerun     *)
(* from top to bottom on every widget event.  The state that survives a    *)
(* run is st.session_state; the script's own names live for one run.       *)
(*                                                                         *)
(* Python values that may be None are tagged: PyStr(s) or PyNone.          *)
(* Temperatures are counted in hundredths (0.8 is 80).  The en dash of     *)
(* "1-3 sentences" in base_rules is written as an ASCII hyphen.            *)
(***************************************************************************)
EXTENDS Integers, Sequences, FiniteSets, TLC

VARIABLES
    session_state,  \* st.session_state: a function on the keys set so far
    ns,             \* the names the running script has bound so far
    pc,             \* the position of the script run
    rendered,       \* the chat messages shown on the page, in order
    suggestions,    \* whether the "Try:" hints are shown
    calls,          \* the requests client.chat.completions.create got in this run
    fn_args,        \* arguments of a direct call of build_system_messages
    fn_result       \* what that call returned

vars == <<session_state, ns, pc, rendered, suggestions, calls, fn_args, fn_result>>

app_vars == <<session_state, ns, pc, rendered, suggestions, calls>>

fn_vars == <<fn_args, fn_result>>

(***************************************************************************)
(* Bounds of the model                                                     *)
(***************************************************************************)
\* at most this many user/assistant exchanges are held in the history
MaxExchanges == 2

(***************************************************************************)
(* Python values                                                           *)
(***************************************************************************)
PyNone == [type |-> "NoneType"]

PyStr(s) == [type |-> "str", val |-> s]

\* bool(v) of a str or None
Truthy(v) == v.type = "str" /\ v.val # ""

\* an f-string's rendering of a str or None
Format(v) == IF v.type = "str" THEN v.val ELSE "None"

\* dict.get(key, default) of a dict with str keys
DictGetNoDefault(d, key, default) ==
    IF key.type = "str" /\ key.val \in DOMAIN d THEN d[key.val] ELSE ""

DictGet(d, key, default) ==
    IF key.type = "str" /\ key.val \in DOMAIN d THEN d[key.val] ELSE default

RECURSIVE Join(_, _)
\* sep.join(strs)
Join(sep, strs) ==
    IF Len(strs) = 0 THEN ""
    ELSE IF Len(strs) = 1 THEN strs[1]
    ELSE strs[1] \o sep \o Join(sep, Tail(strs))

\* s.endswith(suffix)
EndsWith(s, suffix) ==
    /\ Len(s) >= Len(suffix)
    /\ SubSeq(s, Len(s) - Len(suffix) + 1, Len(s)) = suffix

\* sub in s
Contains(s, sub) ==
    \E i \in 1..(Len(s) - Len(sub) + 1) : SubSeq(s, i, i + Len(sub) - 1) = sub

\* a chat message dict
Turn(role, content) == [role |-> role, content |-> content]

(***************************************************************************)
(* build_system_messages                                                   *)
(***************************************************************************)
base_rules == <<
    "You tell short, witty jokes about programming, software engineering, and computer science.",
    "Keep jokes light, friendly, and suitable for a professional environment (PG-13).",
    "Avoid offensive content, stereotypes, harassment, or targeting protected classes.",
    "No sexual content, graphic violence, or hateful language.",
    "Prefer inclusive humor and gentle self-deprecation over insults.",
    "If asked for non-programming jokes, gracefully pivot back to programming humor.",
    "If the user requests something unsafe, refuse briefly and offer a safe, related programming joke.",
    "Aim for 1-3 sentences per joke unless the user asks for more." >>

style_rules ==
    ("Surprise me" :> "Use any clean programming-humor style that fits the user's request.")
    @@ ("One-liner" :> "Prefer concise one-liners with a quick punchline.")
    @@ ("Dad joke" :> "Prefer wholesome, punny dad-joke style humor.")
    @@ ("Setup and punchline" :> "Use a short setup followed by a clear punchline on a new line.")
    @@ ("Puns" :> "Favor wordplay and puns related to programming terms.")
    @@ ("Explain after" :> "Tell the joke first, then add a brief one-sentence explanation.")

lang_note_unguarded(language) ==
    IF language # PyStr("English")
    THEN "Respond in " \o Format(language) \o "."
    ELSE "Respond in English."

lang_note(language) ==
    IF Truthy(language) /\ language # PyStr("English")
    THEN "Respond in " \o Format(language) \o "."
    ELSE "Respond in English."

style_directive_fixed(style) == style_rules["Surprise me"]

style_directive_keyed(style) ==
    DictGetNoDefault(style_rules, style, style_rules["Surprise me"])

\* style_rules.get(style, style_rules['Surprise me'])
style_directive(style) ==
    DictGet(style_rules, style, style_rules["Surprise me"])

build_system_messages(style, language) ==
    << Turn("system", "You are a helpful assistant."),
       Turn("system",
            "You are a programming joke assistant.\n"
            \o Join(" ", base_rules)
            \o "\nPreferred style: " \o style_directive(style) \o "\n"
            \o lang_note(language)) >>

(***************************************************************************)
(* call_openai_chat and the hosted completion endpoint                     *)
(***************************************************************************)
\* texts the endpoint may generate
Replies == {"Why do programmers prefer dark mode? Because light attracts bugs."}

\* what one call of client.chat.completions.create can do: raise, or return
\* a response with no choice, or with one choice holding a generated text
Outcomes ==
    {[kind |-> "raise", choices |-> <<>>], [kind |-> "response", choices |-> <<>>]}
    \cup {[kind |-> "response", choices |-> <<[message |-> [content |-> r]]>>] :
            r \in Replies}

\* the keyword arguments of client.chat.completions.create
create_kwargs_clamped(messages, model, temperature, max_tokens) ==
    [model |-> model, messages |-> messages,
     temperature |-> IF temperature > 100 THEN 100 ELSE temperature,
     max_tokens |-> max_tokens]

create_kwargs(messages, model, temperature, max_tokens) ==
    [model |-> model, messages |-> messages,
     temperature |-> temperature, max_tokens |-> max_tokens]

\* call_openai_chat when the endpoint does `outcome`: the request it sends,
\* and either the exception that leaves the function or the text it returns
call_openai_chat(messages, model, temperature, max_tokens, outcome) ==
    LET request == create_kwargs(messages, model, temperature, max_tokens)
    IN IF outcome.kind = "raise"
       THEN [request |-> request, raised |-> TRUE, exc |-> "APIError", value |-> ""]
       ELSE IF Len(outcome.choices) = 0
       THEN [request |-> request, raised |-> TRUE, exc |-> "IndexError", value |-> ""]
       ELSE [request |-> request, raised |-> FALSE, exc |-> "",
             value |-> outcome.choices[1].message.content]

\* the exception classes `except Exception` catches, among those raised here
ExceptionClasses == {"APIError", "IndexError"}

FALLBACK == "Sorry, I ran into an error while trying to fetch a joke. Please try again."

try_call_leaky(result) ==
    IF result.raised
    THEN [uncaught |-> FALSE, text |-> "Error: " \o result.exc]
    ELSE [uncaught |-> FALSE, text |-> result.value]

\* try: assistant_text = call_openai_chat(...)
\* except Exception as e: assistant_text = "Sorry, ..."
try_call(result) ==
    IF ~result.raised THEN [uncaught |-> FALSE, text |-> result.value]
    ELSE IF result.exc \in ExceptionClasses
    THEN [uncaught |-> FALSE, text |-> FALLBACK]
    ELSE [uncaught |-> TRUE, text |-> ""]

(***************************************************************************)
(* render_chat_history and build_message_context                           *)
(***************************************************************************)
RECURSIVE render_chat_history(_)
render_chat_history(history) ==
    IF Len(history) = 0 THEN <<>>
    ELSE IF history[1].role \in {"user", "assistant"}
    THEN <<Turn(history[1].role, history[1].content)>>
         \o render_chat_history(Tail(history))
    ELSE render_chat_history(Tail(history))

build_message_context_no_history(system_msgs, history, user_text) ==
    Append(system_msgs, Turn("user", user_text))

build_message_context(system_msgs, history, user_text) ==
    Append(system_msgs \o history, Turn("user", user_text))

\* history[:-1]
AllButLast(seq) == SubSeq(seq, 1, Len(seq) - 1)

(***************************************************************************)
(* The widgets of the sidebar and the chat input                           *)
(***************************************************************************)
ModelOptions == {"gpt-4", "gpt-3.5-turbo"}

StyleOptions ==
    {"Surprise me", "One-liner", "Dad joke", "Setup and punchline", "Puns",
     "Explain after"}

LanguageOptions ==
    {"English", "Spanish", "French", "German", "Portuguese", "Italian",
     "Japanese", "Korean", "Chinese"}

TempMin == 0

TempMax == 150

TempDefault == 80

TokMin == 64

TokMax == 512

TokDefault == 180

\* the widget values a run draws from: every model, some of the styles and
\* languages, and both ends and the default of each slider
StyleChoices == {"Surprise me", "One-liner", "Explain after"}

LanguageChoices == {"English", "Japanese"}

TemperatureChoices == {TempMin, TempDefault, TempMax}

MaxTokensChoices == {TokMin, TokDefault, TokMax}

\* the texts a user submits
UserTexts == {"tell me one about recursion", "a pun about Git branching"}

(***************************************************************************)
(* The state st.session_state holds                                        *)
(***************************************************************************)
HasHistory == "history" \in DOMAIN session_state

history == session_state.history

SetKey(f, key, value) == (key :> value) @@ f

\* if "history" not in st.session_state or clear: st.session_state.history = []
init_history_once(ss, clear) ==
    IF "history" \notin DOMAIN ss THEN SetKey(ss, "history", <<>>) ELSE ss

init_history(ss, clear) ==
    IF "history" \notin DOMAIN ss \/ clear THEN SetKey(ss, "history", <<>>) ELSE ss

\* if "config" not in st.session_state: ...  st.session_state.config.update({...})
save_config(ss, w) ==
    SetKey(ss, "config",
           [model |-> w.model, style |-> w.style, language |-> w.language,
            temperature |-> w.temperature, max_tokens |-> w.max_tokens])

(***************************************************************************)
(* A script run, step by step                                              *)
(***************************************************************************)
Init ==
    /\ session_state = <<>>
    /\ ns = <<>>
    /\ pc = "idle"
    /\ rendered = <<>>
    /\ suggestions = FALSE
    /\ calls = <<>>
    /\ fn_args = <<>>
    /\ fn_result = <<>>

\* A widget event starts a run: the sidebar's widgets return their values,
\* the history is created or cleared and the settings are saved.
Rerun ==
    /\ pc = "idle"
    /\ \E model \in ModelOptions, style \in StyleChoices,
          language \in LanguageChoices, temperature \in TemperatureChoices,
          max_tokens \in MaxTokensChoices, clear \in BOOLEAN :
          LET w == [model |-> model, style |-> style, language |-> language,
                    temperature |-> temperature, max_tokens |-> max_tokens,
                    clear |-> clear]
          IN /\ ns' = w
             /\ session_state' = save_config(init_history(session_state, clear), w)
    /\ calls' = <<>>
    /\ pc' = "render"
    /\ UNCHANGED <<rendered, suggestions, fn_vars>>

\* render_chat_history(st.session_state.history)
Render ==
    /\ pc = "render"
    /\ rendered' = render_chat_history(history)
    /\ pc' = "chat_input"
    /\ UNCHANGED <<session_state, ns, suggestions, calls, fn_vars>>

\* user_prompt = st.chat_input(...): None, or the text just submitted
ChatInput ==
    /\ pc = "chat_input"
    /\ \E user_prompt \in {PyNone} \cup {PyStr(t) : t \in UserTexts} :
          /\ Truthy(user_prompt) => Len(history) < 2 * MaxExchanges
          /\ ns' = SetKey(ns, "user_prompt", user_prompt)
          /\ pc' = IF Truthy(user_prompt) THEN "append_user" ELSE "suggestions"
    /\ UNCHANGED <<session_state, rendered, suggestions, calls, fn_vars>>

AppendUser ==
    /\ pc = "append_user"
    /\ session_state' =
          [session_state EXCEPT
              !.history = Append(@, Turn("user", ns.user_prompt.val))]
    /\ rendered' = Append(rendered, Turn("user", ns.user_prompt.val))
    /\ pc' = "build"
    /\ UNCHANGED <<ns, suggestions, calls, fn_vars>>

BuildMessages ==
    /\ pc = "build"
    /\ LET system_messages ==
               build_system_messages(PyStr(ns.style), PyStr(ns.language))
           all_messages ==
               build_message_context(system_messages, AllButLast(history),
                                     ns.user_prompt.val)
       IN ns' = SetKey(SetKey(ns, "system_messages", system_messages),
                       "all_messages", all_messages)
    /\ pc' = "call"
    /\ UNCHANGED <<session_state, rendered, suggestions, calls, fn_vars>>

\* one exchange with the endpoint, as the endpoint sees it
Exchange(result, outcome) == [request |-> result.request, outcome |-> outcome]

CallOpenAIRetry ==
    /\ pc = "call"
    /\ \E outcome \in Outcomes :
          LET result == call_openai_chat(ns.all_messages, ns.model,
                                         ns.temperature, ns.max_tokens, outcome)
              got == try_call(result)
          IN /\ calls' = IF result.raised
                         THEN calls \o <<Exchange(result, outcome),
                                         Exchange(result, outcome)>>
                         ELSE Append(calls, Exchange(result, outcome))
             /\ ns' = IF got.uncaught THEN ns
                      ELSE SetKey(ns, "assistant_text", got.text)
             /\ pc' = IF got.uncaught THEN "crashed" ELSE "append_assistant"
    /\ UNCHANGED <<session_state, rendered, suggestions, fn_vars>>

\* try: assistant_text = call_openai_chat(...) except Exception: ...
\* An exception the handler does not catch ends the run.
CallOpenAI ==
    /\ pc = "call"
    /\ \E outcome \in Outcomes :
          LET result == call_openai_chat(ns.all_messages, ns.model,
                                         ns.temperature, ns.max_tokens, outcome)
              got == try_call(result)
          IN /\ calls' = Append(calls, Exchange(result, outcome))
             /\ ns' = IF got.uncaught THEN ns
                      ELSE SetKey(ns, "assistant_text", got.text)
             /\ pc' = IF got.uncaught THEN "crashed" ELSE "append_assistant"
    /\ UNCHANGED <<session_state, rendered, suggestions, fn_vars>>

AppendAssistantSkipFallback ==
    /\ pc = "append_assistant"
    /\ session_state' =
          IF ns.assistant_text = FALLBACK THEN session_state
          ELSE [session_state EXCEPT
                  !.history = Append(@, Turn("assistant", ns.assistant_text))]
    /\ rendered' = Append(rendered, Turn("assistant", ns.assistant_text))
    /\ pc' = "suggestions"
    /\ UNCHANGED <<ns, suggestions, calls, fn_vars>>

AppendAssistantOverwrite ==
    /\ pc = "append_assistant"
    /\ session_state' =
          [session_state EXCEPT
              !.history = Append(AllButLast(@), Turn("assistant", ns.assistant_text))]
    /\ rendered' = Append(rendered, Turn("assistant", ns.assistant_text))
    /\ pc' = "suggestions"
    /\ UNCHANGED <<ns, suggestions, calls, fn_vars>>

AppendAssistant ==
    /\ pc = "append_assistant"
    /\ session_state' =
          [session_state EXCEPT
              !.history = Append(@, Turn("assistant", ns.assistant_text))]
    /\ rendered' = Append(rendered, Turn("assistant", ns.assistant_text))
    /\ pc' = "suggestions"
    /\ UNCHANGED <<ns, suggestions, calls, fn_vars>>

\* if not st.session_state.history: the "Try:" hints; then the run ends
Suggestions ==
    /\ pc = "suggestions"
    /\ suggestions' = (Len(history) = 0)
    /\ ns' = <<>>
    /\ pc' = "idle"
    /\ UNCHANGED <<session_state, rendered, calls, fn_vars>>

Next ==
    \/ Rerun
    \/ Render
    \/ ChatInput
    \/ AppendUser
    \/ BuildMessages
    \/ CallOpenAI
    \/ AppendAssistant
    \/ Suggestions

Spec == Init /\ [][Next]_vars

(***************************************************************************)
(* build_system_messages called directly, on any style and language        *)
(***************************************************************************)
\* styles that are no key of style_rules
UnknownStyles ==
    {PyStr("Limerick"), PyStr("surprise me"), PyStr("Puns "), PyStr(""), PyNone}

StyleInputs == {PyStr(s) : s \in StyleOptions} \cup UnknownStyles

LanguageInputs ==
    {PyStr(l) : l \in LanguageOptions}
    \cup {PyStr("Klingon"), PyStr("english"), PyStr(""), PyNone}

InitFn ==
    /\ session_state = <<>>
    /\ ns = <<>>
    /\ pc = "idle"
    /\ rendered = <<>>
    /\ suggestions = FALSE
    /\ calls = <<>>
    /\ fn_args \in [style : StyleInputs, language : LanguageInputs]
    /\ fn_result = <<>>

CallBuildSystemMessages ==
    /\ fn_result = <<>>
    /\ fn_result' = build_system_messages(fn_args.style, fn_args.language)
    /\ UNCHANGED <<app_vars, fn_args>>

NextFn == CallBuildSystemMessages

SpecFn == InitFn /\ [][NextFn]_vars

(***************************************************************************)
(* Properties                                                              *)
(***************************************************************************)
\* the endpoint failed: it raised, or its response holds no choice
Failed(outcome) == outcome.kind = "raise" \/ Len(outcome.choices) = 0

\* m is the system turns of this run's style and language, then every turn
\* of the history but its last (the user turn just appended), then one user
\* turn holding the submitted text
IsRequestFor(m) ==
    LET sys == build_system_messages(PyStr(ns.style), PyStr(ns.language))
        n == Len(history) - 1
    IN /\ Len(m) = Len(sys) + n + 1
       /\ \A i \in 1..Len(sys) : m[i] = sys[i]
       /\ \A i \in 1..n : m[Len(sys) + i] = history[i]
       /\ m[Len(m)] = Turn("user", ns.user_prompt.val)
       /\ \A i \in 1..(Len(m) - 1) : m[i].role = "system" <=> i <= Len(sys)

\* C1: the message sequence built for a submission, and the one the
\* completion call receives, is the system turns, then the whole prior
\* history in order, then exactly one user turn with the newest input; its
\* length is len(system turns) + len(prior history) + 1.
C1_MessageSequence ==
    /\ pc = "call" => IsRequestFor(ns.all_messages)
    /\ pc = "append_assistant" =>
          /\ Len(calls) = 1
          /\ IsRequestFor(calls[1].request.messages)

C1_Witness ==
    /\ pc = "append_assistant"
    /\ Len(history) = 3
    /\ history[2].content = FALLBACK
    /\ history[1].content # history[3].content
    /\ Len(calls[1].request.messages) = 5

\* C2: when the completion call fails, the assistant text is the fallback
\* sentence, that sentence is the assistant turn appended to the history, and
\* the run goes on to its end: no exception leaves the handler.
C2_FallbackOnFailure ==
    /\ pc # "crashed"
    /\ (pc = "append_assistant" /\ Failed(calls[1].outcome)) =>
          ns.assistant_text =
             "Sorry, I ran into an error while trying to fetch a joke. Please try again."
    /\ (pc \in {"suggestions", "idle"} /\ calls # <<>> /\ Failed(calls[1].outcome)) =>
          history[Len(history)] =
             Turn("assistant",
                  "Sorry, I ran into an error while trying to fetch a joke. Please try again.")

C2_Witness ==
    /\ pc = "idle"
    /\ calls # <<>>
    /\ calls[1].outcome = [kind |-> "response", choices |-> <<>>]
    /\ Len(history) = 2 * MaxExchanges
    /\ history[Len(history)].content = FALLBACK

\* C3: in a run whose Clear button was pressed the history is empty from the
\* session-state step on, and the render of the history shows no message.
C3_ResetEmptiesTranscript ==
    (pc \in {"render", "chat_input"} /\ ns.clear) =>
        /\ history = <<>>
        /\ pc = "chat_input" => rendered = <<>>

C3_Witness ==
    /\ pc = "chat_input"
    /\ ns.clear
    /\ "config" \in DOMAIN session_state
    /\ rendered = <<>>
    /\ calls = <<>>
    /\ ~suggestions

\* C4: a run makes one completion call if a text was submitted, whether the
\* call succeeds or fails, and none otherwise; no call precedes the
\* submission and no second call follows a failure.
C4_OneCallPerSubmission ==
    /\ Len(calls) <= 1
    /\ pc \in {"render", "chat_input", "append_user", "build", "call"} => calls = <<>>
    /\ pc = "append_assistant" => Len(calls) = 1
    /\ pc = "suggestions" => Len(calls) = IF Truthy(ns.user_prompt) THEN 1 ELSE 0

C4_Witness ==
    /\ pc = "suggestions"
    /\ Truthy(ns.user_prompt)
    /\ Len(calls) = 1
    /\ calls[1].outcome.kind = "raise"

\* C5: every step leaves the history as it was, except that the step after a
\* submission appends the user turn, the step after the call appends one
\* assistant turn (a generated text or the fallback), and the session-state
\* step of a run with Clear pressed empties it.
C5_AppendOnly ==
    [][HasHistory =>
         IF pc = "idle" /\ ns'.clear THEN history' = <<>>
         ELSE IF pc = "append_user"
         THEN history' = Append(history, Turn("user", ns.user_prompt.val))
         ELSE IF pc = "append_assistant"
         THEN /\ history' = Append(history, Turn("assistant", ns.assistant_text))
              /\ ns.assistant_text \in Replies \cup {FALLBACK}
         ELSE history' = history]_vars

C5_Witness ==
    /\ pc = "suggestions"
    /\ ~ns.clear
    /\ Len(history) = 2 * MaxExchanges
    /\ history[Len(history)].content \in Replies
    /\ history[2].content = FALLBACK

\* C6: for each of the six styles and language "English" the result is two
\* system turns, the first the helpful-assistant preamble, the second
\* containing the style's directive and ending with "Respond in English.".
C6_StyleDirective ==
    (/\ fn_result # <<>>
     /\ fn_args.style \in {PyStr(s) : s \in StyleOptions}
     /\ fn_args.language = PyStr("English")) =>
        /\ Len(fn_result) = 2
        /\ fn_result[1] = Turn("system", "You are a helpful assistant.")
        /\ fn_result[2].role = "system"
        /\ Contains(fn_result[2].content, style_rules[fn_args.style.val])
        /\ fn_args.style.val = "One-liner" =>
              Contains(fn_result[2].content, "Prefer concise one-liners")
        /\ EndsWith(fn_result[2].content, "Respond in English.")

C6_Witness ==
    /\ fn_result # <<>>
    /\ fn_args = [style |-> PyStr("Explain after"), language |-> PyStr("English")]
    /\ Contains(fn_result[2].content, "then add a brief one-sentence explanation.")

\* C7: the composite system turn ends with "Respond in <language>." when the
\* language is a non-empty string other than "English", and with
\* "Respond in English." when it is "English", empty or None.
C7_LanguageNote ==
    fn_result # <<>> =>
        LET language == fn_args.language
        IN IF language.type = "str" /\ language.val \notin {"", "English"}
           THEN EndsWith(fn_result[2].content,
                         "\nRespond in " \o language.val \o ".")
           ELSE EndsWith(fn_result[2].content, "\nRespond in English.")

C7_Witness ==
    /\ fn_result # <<>>
    /\ fn_args.language = PyStr("Japanese")
    /\ EndsWith(fn_result[2].content, "Respond in Japanese.")

\* C8: for a style that is no key of the style mapping the result is the one
\* for "Surprise me" with the same language: the directive is the
\* "Surprise me" text verbatim.
C8_UnknownStyle ==
    (fn_result # <<>> /\ fn_args.style \in UnknownStyles) =>
        /\ Len(fn_result) = 2
        /\ fn_result = build_system_messages(PyStr("Surprise me"), fn_args.language)
        /\ Contains(fn_result[2].content,
              "\nPreferred style: Use any clean programming-humor style that fits the user's request.\n")

C8_Witness ==
    /\ fn_result # <<>>
    /\ fn_args.style = PyStr("Limerick")
    /\ fn_args.language = PyStr("Korean")

\* C9: the request the completion call sends carries the model, temperature
\* and max_tokens the sidebar returned in this run, unchanged.
C9_SettingsPassThrough ==
    (pc \in {"append_assistant", "suggestions"} /\ calls # <<>>) =>
        LET request == calls[1].request
        IN /\ request.model = ns.model
           /\ request.temperature = ns.temperature
           /\ request.max_tokens = ns.max_tokens
           /\ request.temperature = session_state.config.temperature
           /\ request.max_tokens = session_state.config.max_tokens
           /\ request.model = session_state.config.model

C9_Witness ==
    /\ pc = "append_assistant"
    /\ ns.temperature = TempMax
    /\ ns.max_tokens = TokMin
    /\ calls[1].request.temperature = 150
    /\ calls[1].request.max_tokens = 64

\* C10: between runs the history has even length and alternates user,
\* assistant, ... starting with a user turn.
C10_Alternation ==
    (pc = "idle" /\ HasHistory) =>
        /\ Len(history) % 2 = 0
        /\ \A i \in 1..Len(history) :
              history[i].role = IF i % 2 = 1 THEN "user" ELSE "assistant"

C10_Witness ==
    /\ pc = "idle"
    /\ HasHistory
    /\ Len(history) = 2 * MaxExchanges
    /\ history[Len(history)].content = FALLBACK
    /\ history[2].content \in Replies

====
